---- MODULE Spec2Model ----
(***************************************************************************)
(* A model of the fobzip crate: the FobZ document aggregate (manifest,     *)
(* three index tables, three payload maps), its mutation and query         *)
(* methods, and the archive codec (save_to / open).                        *)
(*                                                                         *)
(* Strings are TLA+ strings; str::starts_with and str::ends_with are       *)
(* computed on them with Len and SubSeq.  A HashMap is a function whose    *)
(* DOMAIN is its key set.  A Vec is a sequence.  Option is None / Some(v). *)
(***************************************************************************)
EXTENDS Integers, Sequences, FiniteSets, TLC

\* manifest .. styles: the fields of struct FobZ (lib.rs 187-195), the
\*   document the caller holds
\* archive: the file that save_to writes and open reads
\* saved:   history: the document save_to wrote the archive from, None when
\*          the archive is not the product of a successful save_to
\* origin:  history: "new" or "open", the constructor the document came from
\* last:    history: the last call, its arguments and its return value
\* calls:   history: the add and remove calls made on an Index Table itself,
\*          in call order
VARIABLES manifest, toc, tor, tos, contents, resources, styles,
          archive, saved, origin, last, calls

docvars == <<manifest, toc, tor, tos, contents, resources, styles>>
vars == <<manifest, toc, tor, tos, contents, resources, styles,
          archive, saved, origin, last, calls>>

----------------------------------------------------------------------------
(* Bounds of the model *)

\* largest number of records the three index tables hold together, for the
\* in-memory specification and for the specifications with an archive
MaxRecs == 2
MaxCodecRecs == 1
\* longest tag list a manifest holds
MaxTags == 3
MaxCalls == 4

----------------------------------------------------------------------------
(* Option, strings, maps, vectors *)

None == [some |-> FALSE]
Some(x) == [some |-> TRUE, v |-> x]

starts_with(s, pre) ==
    /\ Len(pre) <= Len(s)
    /\ SubSeq(s, 1, Len(pre)) = pre

ends_with(s, suf) ==
    /\ Len(suf) <= Len(s)
    /\ SubSeq(s, Len(s) - Len(suf) + 1, Len(s)) = suf

EmptyMap == [k \in {} |-> ""]

\* HashMap::insert: inserts or overwrites
\* mutant: an existing entry keeps its value
MapInsertBug(m, k, x) ==
    [q \in (DOMAIN m) \cup {k} |-> IF q \in DOMAIN m THEN m[q] ELSE x]
MapInsert(m, k, x) ==
    [q \in (DOMAIN m) \cup {k} |-> IF q = k THEN x ELSE m[q]]

\* HashMap::remove_entry: no-op when the key is absent
MapRemove(m, k) == [q \in (DOMAIN m) \ {k} |-> m[q]]

\* HashMap::get
MapGet(m, k) == IF k \in DOMAIN m THEN Some(m[k]) ELSE None

\* Vec::retain with the predicate "the element's path differs from path"
RECURSIVE RetainPathNe(_, _)
RetainPathNe(v, path) ==
    IF v = <<>> THEN <<>>
    ELSE IF Head(v).path # path
         THEN <<Head(v)>> \o RetainPathNe(Tail(v), path)
         ELSE RetainPathNe(Tail(v), path)

\* Iterator::find with the predicate "the element's path equals path"
RECURSIVE FindPathEq(_, _)
FindPathEq(v, path) ==
    IF v = <<>> THEN None
    ELSE IF Head(v).path = path THEN Some(Head(v))
         ELSE FindPathEq(Tail(v), path)

----------------------------------------------------------------------------
(* Default payloads and the constructor's sentinel keys *)

NO_SECTION == "<no_section>"
NO_COVER == "<no_cover>"
NoSectionPath == "default/no_section.html"
NoCoverPath == "default/no_cover.jpg"

----------------------------------------------------------------------------
(* manifest.rs *)

ManifestNew(title, author, description, tags) ==
    [version |-> "1.0", title |-> title, author |-> author,
     description |-> description, tags |-> tags,
     index |-> NoSectionPath, cover |-> NoCoverPath]

\* Vec::append
ManifestAddTags(m, tags) == [m EXCEPT !.tags = @ \o tags]

\* tags.contains(v)
Contains(tags, x) == \E i \in 1..Len(tags) : tags[i] = x

RECURSIVE RetainNotIn(_, _)
RetainNotIn(v, tags) ==
    IF v = <<>> THEN <<>>
    ELSE IF ~Contains(tags, Head(v))
         THEN <<Head(v)>> \o RetainNotIn(Tail(v), tags)
         ELSE RetainNotIn(Tail(v), tags)

\* mutant: only the first tag of the argument is removed
ManifestRemoveTagsBug(m, tags) ==
    [m EXCEPT !.tags = IF tags = <<>> THEN @ ELSE RetainNotIn(@, <<Head(tags)>>)]
ManifestRemoveTags(m, tags) == [m EXCEPT !.tags = RetainNotIn(@, tags)]

----------------------------------------------------------------------------
(* toc.rs, tor.rs, tos.rs *)

TableOfContentsNew == [sections |-> <<>>]
\* mutant: the last matching record is returned
TableOfContentsGetBug(t, path) ==
    IF \E i \in 1..Len(t.sections) : t.sections[i].path = path
    THEN Some(t.sections[CHOOSE i \in 1..Len(t.sections) :
                 /\ t.sections[i].path = path
                 /\ \A j \in (i + 1)..Len(t.sections) :
                        t.sections[j].path # path])
    ELSE None
TableOfContentsGet(t, path) == FindPathEq(t.sections, path)
\* mutant: the record is not appended
TableOfContentsAddBug(t, info) == t
TableOfContentsAdd(t, info) == [t EXCEPT !.sections = @ \o <<info>>]
\* mutant: only the first matching record is deleted
TableOfContentsRemoveBug(t, path) ==
    IF \E i \in 1..Len(t.sections) : t.sections[i].path = path
    THEN LET k == CHOOSE i \in 1..Len(t.sections) :
                    /\ t.sections[i].path = path
                    /\ \A j \in 1..(i - 1) : t.sections[j].path # path
         IN  [t EXCEPT !.sections =
                 SubSeq(@, 1, k - 1) \o SubSeq(@, k + 1, Len(@))]
    ELSE t
TableOfContentsRemove(t, path) ==
    [t EXCEPT !.sections = RetainPathNe(@, path)]

TableOfResourcesNew == [resources |-> <<>>]
TableOfResourcesGet(t, path) == FindPathEq(t.resources, path)
TableOfResourcesAdd(t, info) == [t EXCEPT !.resources = @ \o <<info>>]
TableOfResourcesRemove(t, path) ==
    [t EXCEPT !.resources = RetainPathNe(@, path)]

TableOfStylesNew == [styles |-> <<>>]
TableOfStylesGet(t, path) == FindPathEq(t.styles, path)
TableOfStylesAdd(t, info) == [t EXCEPT !.styles = @ \o <<info>>]
TableOfStylesRemove(t, path) ==
    [t EXCEPT !.styles = RetainPathNe(@, path)]

----------------------------------------------------------------------------
(* Byte strings.  String::as_bytes gives valid UTF-8; a Vec<u8> may hold    *)
(* bytes that are not UTF-8; Read::read_to_string fails on those.          *)

Text(s) == [kind |-> "text", v |-> s]
Raw(s) == [kind |-> "raw", v |-> s]

as_bytes(s) == Text(s)

Ok(x) == [ok |-> TRUE, v |-> x]
Err == [ok |-> FALSE]

read_to_string(data) == IF data.kind = "text" THEN Ok(data.v) ELSE Err
read_to_end(data) == Ok(data)

----------------------------------------------------------------------------
(* lib.rs: the FobZ aggregate *)

Doc == [manifest |-> manifest, toc |-> toc, tor |-> tor, tos |-> tos,
        contents |-> contents, resources |-> resources, styles |-> styles]

FobZNew(title, author, description, tags) ==
    [manifest |-> ManifestNew(title, author, description, tags),
     toc |-> TableOfContentsNew,
     tor |-> TableOfResourcesNew,
     tos |-> TableOfStylesNew,
     contents |-> MapInsert(EmptyMap, NoSectionPath, NO_SECTION),
     resources |-> MapInsert(EmptyMap, NoCoverPath, Raw(NO_COVER)),
     styles |-> EmptyMap]

RecCount == Len(toc.sections) + Len(tor.resources) + Len(tos.styles)

Call(op, args, ret) == [op |-> op, args |-> args, ret |-> ret]

\* mutant: add_style takes any path
StylePathOkBug(path) == TRUE
\* mutant: the dot of the extension is not required
ContentPathOkBug(path) == ends_with(path, "html")
ContentPathOk(path) == ends_with(path, ".html")
ResourcePathOk(path) == ends_with(path, ".jpg") \/ ends_with(path, ".png")
StylePathOk(path) == ends_with(path, ".css")

add_content(path, title, content) ==
    /\ IF ~ContentPathOk(path)
       THEN UNCHANGED <<contents, toc>>
       ELSE /\ contents' = MapInsert(contents, path, content)
            /\ toc' = TableOfContentsAdd(toc, [path |-> path, title |-> title])
    /\ last' = Call("add_content", <<path, title, content>>, None)
    /\ UNCHANGED <<calls, manifest, tor, tos, resources, styles, archive, saved, origin>>

remove_content(path) ==
    /\ contents' = MapRemove(contents, path)
    /\ toc' = TableOfContentsRemove(toc, path)
    /\ last' = Call("remove_content", <<path>>, None)
    /\ UNCHANGED <<calls, manifest, tor, tos, resources, styles, archive, saved, origin>>

add_resource(path, name, resource) ==
    /\ IF ~ResourcePathOk(path)
       THEN UNCHANGED <<resources, tor>>
       ELSE /\ resources' = MapInsert(resources, path, resource)
            /\ tor' = TableOfResourcesAdd(tor, [path |-> path, name |-> name])
    /\ last' = Call("add_resource", <<path, name, resource>>, None)
    /\ UNCHANGED <<calls, manifest, toc, tos, contents, styles, archive, saved, origin>>

remove_resource(path) ==
    /\ resources' = MapRemove(resources, path)
    /\ tor' = TableOfResourcesRemove(tor, path)
    /\ last' = Call("remove_resource", <<path>>, None)
    /\ UNCHANGED <<calls, manifest, toc, tos, contents, styles, archive, saved, origin>>

add_style(path, style) ==
    /\ IF ~StylePathOk(path)
       THEN UNCHANGED <<styles, tos>>
       ELSE /\ styles' = MapInsert(styles, path, style)
            /\ tos' = TableOfStylesAdd(tos, [path |-> path])
    /\ last' = Call("add_style", <<path, style>>, None)
    /\ UNCHANGED <<calls, manifest, toc, tor, contents, resources, archive, saved, origin>>

remove_style(path) ==
    /\ styles' = MapRemove(styles, path)
    /\ tos' = TableOfStylesRemove(tos, path)
    /\ last' = Call("remove_style", <<path>>, None)
    /\ UNCHANGED <<calls, manifest, toc, tor, contents, resources, archive, saved, origin>>

(* Queries: the returned Option is recorded in last.ret *)

get_content_info(path) == TableOfContentsGet(toc, path)
get_resource_info(path) == TableOfResourcesGet(tor, path)
get_style_info(path) == TableOfStylesGet(tos, path)

\* mutant: a record without payload is returned with an empty payload
GetContentBug(path) ==
    LET info == get_content_info(path) IN
    IF info.some
    THEN LET content == MapGet(contents, path) IN
         IF content.some THEN Some(<<info.v, content.v>>)
         ELSE Some(<<info.v, "">>)
    ELSE None

GetContent(path) ==
    LET info == get_content_info(path) IN
    IF info.some
    THEN LET content == MapGet(contents, path) IN
         IF content.some THEN Some(<<info.v, content.v>>) ELSE None
    ELSE None

GetResource(path) ==
    LET info == get_resource_info(path) IN
    IF info.some
    THEN LET resource == MapGet(resources, path) IN
         IF resource.some THEN Some(<<info.v, resource.v>>) ELSE None
    ELSE None

GetStyle(path) ==
    LET info == get_style_info(path) IN
    IF info.some
    THEN LET content == MapGet(styles, path) IN
         IF content.some THEN Some(<<info.v, content.v>>) ELSE None
    ELSE None

get_content(path) ==
    /\ last' = Call("get_content", <<path>>, GetContent(path))
    /\ UNCHANGED <<calls, docvars, archive, saved, origin>>

get_resource(path) ==
    /\ last' = Call("get_resource", <<path>>, GetResource(path))
    /\ UNCHANGED <<calls, docvars, archive, saved, origin>>

get_style(path) ==
    /\ last' = Call("get_style", <<path>>, GetStyle(path))
    /\ UNCHANGED <<calls, docvars, archive, saved, origin>>

(* Manifest::add_tags / remove_tags on the manifest at hand *)

add_tags(tags) ==
    /\ manifest' = ManifestAddTags(manifest, tags)
    /\ last' = Call("add_tags", <<tags>>, None)
    /\ UNCHANGED <<calls, toc, tor, tos, contents, resources, styles,
                   archive, saved, origin>>

remove_tags(tags) ==
    /\ manifest' = ManifestRemoveTags(manifest, tags)
    /\ last' = Call("remove_tags", <<tags>>, None)
    /\ UNCHANGED <<calls, toc, tor, tos, contents, resources, styles,
                   archive, saved, origin>>

----------------------------------------------------------------------------
(* The Index Tables called directly: TableOfContents, TableOfResources and *)
(* TableOfStyles are public types with public get / add / remove.          *)

TableCall(table, op, path, rec) ==
    [table |-> table, op |-> op, path |-> path, rec |-> rec]

toc_add(info) ==
    /\ toc' = TableOfContentsAdd(toc, info)
    /\ calls' = Append(calls, TableCall("toc", "add", info.path, info))
    /\ last' = Call("toc.add", <<info>>, None)
    /\ UNCHANGED <<manifest, tor, tos, contents, resources, styles,
                   archive, saved, origin>>

toc_remove(path) ==
    /\ toc' = TableOfContentsRemove(toc, path)
    /\ calls' = Append(calls, TableCall("toc", "remove", path, None))
    /\ last' = Call("toc.remove", <<path>>, None)
    /\ UNCHANGED <<manifest, tor, tos, contents, resources, styles,
                   archive, saved, origin>>

toc_get(path) ==
    /\ last' = Call("toc.get", <<path>>, TableOfContentsGet(toc, path))
    /\ UNCHANGED <<docvars, calls, archive, saved, origin>>

tor_add(info) ==
    /\ tor' = TableOfResourcesAdd(tor, info)
    /\ calls' = Append(calls, TableCall("tor", "add", info.path, info))
    /\ last' = Call("tor.add", <<info>>, None)
    /\ UNCHANGED <<manifest, toc, tos, contents, resources, styles,
                   archive, saved, origin>>

tor_remove(path) ==
    /\ tor' = TableOfResourcesRemove(tor, path)
    /\ calls' = Append(calls, TableCall("tor", "remove", path, None))
    /\ last' = Call("tor.remove", <<path>>, None)
    /\ UNCHANGED <<manifest, toc, tos, contents, resources, styles,
                   archive, saved, origin>>

tor_get(path) ==
    /\ last' = Call("tor.get", <<path>>, TableOfResourcesGet(tor, path))
    /\ UNCHANGED <<docvars, calls, archive, saved, origin>>

tos_add(info) ==
    /\ tos' = TableOfStylesAdd(tos, info)
    /\ calls' = Append(calls, TableCall("tos", "add", info.path, info))
    /\ last' = Call("tos.add", <<info>>, None)
    /\ UNCHANGED <<manifest, toc, tor, contents, resources, styles,
                   archive, saved, origin>>

tos_remove(path) ==
    /\ tos' = TableOfStylesRemove(tos, path)
    /\ calls' = Append(calls, TableCall("tos", "remove", path, None))
    /\ last' = Call("tos.remove", <<path>>, None)
    /\ UNCHANGED <<manifest, toc, tor, contents, resources, styles,
                   archive, saved, origin>>

tos_get(path) ==
    /\ last' = Call("tos.get", <<path>>, TableOfStylesGet(tos, path))
    /\ UNCHANGED <<docvars, calls, archive, saved, origin>>

----------------------------------------------------------------------------
(* serde_json.  A JSON value is a string, an array or an object; an object  *)
(* is the sequence of its <<key, value>> members in written order.  The    *)
(* derived Serialize writes one member per struct field under the field's  *)
(* own name; the derived Deserialize looks every field up by that name,    *)
(* ignores unknown members and fails on a missing or mistyped one.         *)

JStr(s) == [t |-> "str", v |-> s]
JArr(a) == [t |-> "arr", v |-> a]
JObj(members) == [t |-> "obj", v |-> members]

\* bytes of a JSON document
JsonText(j) == [kind |-> "json", v |-> j]

HasMember(j, key) == \E i \in 1..Len(j.v) : j.v[i][1] = key
Member(j, key) == j.v[CHOOSE i \in 1..Len(j.v) : j.v[i][1] = key][2]

IsStrMember(j, key) == HasMember(j, key) /\ Member(j, key).t = "str"
IsArrMember(j, key) == HasMember(j, key) /\ Member(j, key).t = "arr"

ManifestToJson(m) ==
    JObj(<< <<"version", JStr(m.version)>>,
            <<"title", JStr(m.title)>>,
            <<"author", JStr(m.author)>>,
            <<"description", JStr(m.description)>>,
            <<"tags", JArr([i \in 1..Len(m.tags) |-> JStr(m.tags[i])])>>,
            <<"index", JStr(m.index)>>,
            <<"cover", JStr(m.cover)>> >>)

ManifestFromJson(j) ==
    IF /\ j.t = "obj"
       /\ \A key \in {"version", "title", "author", "description",
                      "index", "cover"} : IsStrMember(j, key)
       /\ IsArrMember(j, "tags")
       /\ \A i \in 1..Len(Member(j, "tags").v) :
              Member(j, "tags").v[i].t = "str"
    THEN Ok([version |-> Member(j, "version").v,
             title |-> Member(j, "title").v,
             author |-> Member(j, "author").v,
             description |-> Member(j, "description").v,
             tags |-> [i \in 1..Len(Member(j, "tags").v) |->
                          Member(j, "tags").v[i].v],
             index |-> Member(j, "index").v,
             cover |-> Member(j, "cover").v])
    ELSE Err

ContentInfoToJson(info) ==
    JObj(<< <<"path", JStr(info.path)>>, <<"title", JStr(info.title)>> >>)
ContentInfoOk(j) ==
    j.t = "obj" /\ IsStrMember(j, "path") /\ IsStrMember(j, "title")
ContentInfoFromJson(j) ==
    [path |-> Member(j, "path").v, title |-> Member(j, "title").v]

ResourceInfoToJson(info) ==
    JObj(<< <<"path", JStr(info.path)>>, <<"name", JStr(info.name)>> >>)
ResourceInfoOk(j) ==
    j.t = "obj" /\ IsStrMember(j, "path") /\ IsStrMember(j, "name")
ResourceInfoFromJson(j) ==
    [path |-> Member(j, "path").v, name |-> Member(j, "name").v]

StyleInfoToJson(info) == JObj(<< <<"path", JStr(info.path)>> >>)
StyleInfoOk(j) == j.t = "obj" /\ IsStrMember(j, "path")
StyleInfoFromJson(j) == [path |-> Member(j, "path").v]

TableOfContentsToJson(t) ==
    JObj(<< <<"sections",
              JArr([i \in 1..Len(t.sections) |->
                       ContentInfoToJson(t.sections[i])])>> >>)
TableOfContentsFromJson(j) ==
    IF /\ j.t = "obj"
       /\ IsArrMember(j, "sections")
       /\ \A i \in 1..Len(Member(j, "sections").v) :
              ContentInfoOk(Member(j, "sections").v[i])
    THEN Ok([sections |-> [i \in 1..Len(Member(j, "sections").v) |->
                ContentInfoFromJson(Member(j, "sections").v[i])]])
    ELSE Err

TableOfResourcesToJson(t) ==
    JObj(<< <<"resources",
              JArr([i \in 1..Len(t.resources) |->
                       ResourceInfoToJson(t.resources[i])])>> >>)
TableOfResourcesFromJson(j) ==
    IF /\ j.t = "obj"
       /\ IsArrMember(j, "resources")
       /\ \A i \in 1..Len(Member(j, "resources").v) :
              ResourceInfoOk(Member(j, "resources").v[i])
    THEN Ok([resources |-> [i \in 1..Len(Member(j, "resources").v) |->
                ResourceInfoFromJson(Member(j, "resources").v[i])]])
    ELSE Err

TableOfStylesToJson(t) ==
    JObj(<< <<"styles",
              JArr([i \in 1..Len(t.styles) |->
                       StyleInfoToJson(t.styles[i])])>> >>)
TableOfStylesFromJson(j) ==
    IF /\ j.t = "obj"
       /\ IsArrMember(j, "styles")
       /\ \A i \in 1..Len(Member(j, "styles").v) :
              StyleInfoOk(Member(j, "styles").v[i])
    THEN Ok([styles |-> [i \in 1..Len(Member(j, "styles").v) |->
                StyleInfoFromJson(Member(j, "styles").v[i])]])
    ELSE Err

----------------------------------------------------------------------------
(* The archive file: zip says whether the file is a finalized ZIP          *)
(* container, entries are its entries in container order.                  *)

Entry(name, data) == [name |-> name, data |-> data]
NoArchive == [zip |-> FALSE, entries |-> <<>>]

\* ZipWriter::add_directory stores an empty entry named with a trailing "/"
add_directory(name) == Entry(name \o "/", Text(""))

\* ZipArchive::by_name
by_name(a, name) ==
    IF \E i \in 1..Len(a.entries) : a.entries[i].name = name
    THEN Ok(a.entries[CHOOSE i \in 1..Len(a.entries) :
                          a.entries[i].name = name].data)
    ELSE Err

\* the enumerations of a HashMap's keys: iteration order is unspecified
KeyOrders(m) ==
    {o \in [1..Cardinality(DOMAIN m) -> DOMAIN m] :
        \A i, j \in 1..Cardinality(DOMAIN m) : i # j => o[i] # o[j]}

\* mutant: the resource loop runs before the content loop
SaveEntriesBug(d, co, ro, so) ==
    << Entry("manifest.json", JsonText(ManifestToJson(d.manifest))),
       Entry("toc.json", JsonText(TableOfContentsToJson(d.toc))),
       Entry("tor.json", JsonText(TableOfResourcesToJson(d.tor))),
       Entry("tos.json", JsonText(TableOfStylesToJson(d.tos))),
       add_directory("contents"),
       add_directory("resources"),
       add_directory("styles"),
       add_directory("default") >>
    \o [i \in 1..Len(ro) |-> Entry(ro[i], d.resources[ro[i]])]
    \o [i \in 1..Len(co) |-> Entry(co[i], as_bytes(d.contents[co[i]]))]
    \o [i \in 1..Len(so) |-> Entry(so[i], as_bytes(d.styles[so[i]]))]

\* lib.rs 296-331: the entries save_to starts, in order
SaveEntries(d, co, ro, so) ==
    << Entry("manifest.json", JsonText(ManifestToJson(d.manifest))),
       Entry("toc.json", JsonText(TableOfContentsToJson(d.toc))),
       Entry("tor.json", JsonText(TableOfResourcesToJson(d.tor))),
       Entry("tos.json", JsonText(TableOfStylesToJson(d.tos))),
       add_directory("contents"),
       add_directory("resources"),
       add_directory("styles"),
       add_directory("default") >>
    \o [i \in 1..Len(co) |-> Entry(co[i], as_bytes(d.contents[co[i]]))]
    \o [i \in 1..Len(ro) |-> Entry(ro[i], d.resources[ro[i]])]
    \o [i \in 1..Len(so) |-> Entry(so[i], as_bytes(d.styles[so[i]]))]

\* ZipWriter::finish, as an item of the list of ZipWriter calls
Finish == "finish()"

\* FobZ::save_to.  fail_at says which step returns an error through `?`:
\* 0 is File::create, k in 1..n the start_file / add_directory / write_all
\* of the k-th entry, n + 1 is finish(), n + 2 is no failure.  After a
\* failure the entries written so far are in the file; whether that file
\* reads as a ZIP container depends on what dropping the ZipWriter does,
\* which is not code of this crate: readable is either.  last.args is the
\* list of ZipWriter calls made: the names started, then Finish.
save_to(co, ro, so, fail_at, readable) ==
    LET entries == SaveEntries(Doc, co, ro, so)
        n == Len(entries)
        names == [i \in 1..n |-> entries[i].name]
    IN  /\ IF fail_at = 0
           THEN /\ UNCHANGED <<archive, saved>>
                /\ last' = Call("save_to", <<>>, Err)
           ELSE IF fail_at <= n
           THEN /\ archive' = [zip |-> readable,
                               entries |-> SubSeq(entries, 1, fail_at - 1)]
                /\ saved' = None
                /\ last' = Call("save_to", SubSeq(names, 1, fail_at), Err)
           ELSE IF fail_at = n + 1
           THEN /\ archive' = [zip |-> readable, entries |-> entries]
                /\ saved' = None
                /\ last' = Call("save_to", names \o <<Finish>>, Err)
           ELSE /\ archive' = [zip |-> TRUE, entries |-> entries]
                /\ saved' = Some([doc |-> Doc, origin |-> origin])
                /\ last' = Call("save_to", names \o <<Finish>>, Ok(<<>>))
        /\ UNCHANGED <<calls, docvars, origin>>

\* mutant: .xhtml is admitted under contents/ only
EntryClassBug(file_name) ==
    IF /\ starts_with(file_name, "contents/")
       /\ (ends_with(file_name, ".html") \/ ends_with(file_name, ".xhtml"))
    THEN "contents"
    ELSE IF /\ starts_with(file_name, "resources/")
            /\ (ends_with(file_name, ".jpg") \/ ends_with(file_name, ".png"))
    THEN "resources"
    ELSE IF starts_with(file_name, "styles/") /\ ends_with(file_name, ".css")
    THEN "styles"
    ELSE "skip"

\* lib.rs 246-262: the map an archive entry of this name is inserted into
EntryClass(file_name) ==
    IF \/ starts_with(file_name, "contents/") /\ ends_with(file_name, ".html")
       \/ ends_with(file_name, ".xhtml")
    THEN "contents"
    ELSE IF /\ starts_with(file_name, "resources/")
            /\ (ends_with(file_name, ".jpg") \/ ends_with(file_name, ".png"))
    THEN "resources"
    ELSE IF starts_with(file_name, "styles/") /\ ends_with(file_name, ".css")
    THEN "styles"
    ELSE "skip"

\* lib.rs 242-263: the loop over archive.by_index(i)
RECURSIVE ReadEntries(_, _)
ReadEntries(entries, acc) ==
    IF entries = <<>> THEN Ok(acc)
    ELSE LET file == Head(entries)
             file_name == file.name
             class == EntryClass(file_name)
         IN  IF class = "contents"
             THEN LET content == read_to_string(file.data) IN
                  IF ~content.ok THEN Err
                  ELSE ReadEntries(Tail(entries),
                         [acc EXCEPT !.contents =
                             MapInsert(@, file_name, content.v)])
             ELSE IF class = "resources"
             THEN LET resource == read_to_end(file.data) IN
                  IF ~resource.ok THEN Err
                  ELSE ReadEntries(Tail(entries),
                         [acc EXCEPT !.resources =
                             MapInsert(@, file_name, resource.v)])
             ELSE IF class = "styles"
             THEN LET style == read_to_string(file.data) IN
                  IF ~style.ok THEN Err
                  ELSE ReadEntries(Tail(entries),
                         [acc EXCEPT !.styles =
                             MapInsert(@, file_name, style.v)])
             ELSE ReadEntries(Tail(entries), acc)

\* serde_json::from_reader(archive.by_name(name)?)?
ReadJson(a, name) ==
    LET f == by_name(a, name) IN
    IF f.ok /\ f.v.kind = "json" THEN Ok(f.v.v) ELSE Err

ReadManifest(a) ==
    LET j == ReadJson(a, "manifest.json") IN
    IF j.ok THEN ManifestFromJson(j.v) ELSE Err
ReadToc(a) ==
    LET j == ReadJson(a, "toc.json") IN
    IF j.ok THEN TableOfContentsFromJson(j.v) ELSE Err
ReadTor(a) ==
    LET j == ReadJson(a, "tor.json") IN
    IF j.ok THEN TableOfResourcesFromJson(j.v) ELSE Err
\* mutant: a missing tos.json reads as an empty table
ReadTosBug(a) ==
    LET j == ReadJson(a, "tos.json") IN
    IF j.ok THEN TableOfStylesFromJson(j.v)
    ELSE IF by_name(a, "tos.json").ok THEN Err ELSE Ok(TableOfStylesNew)
ReadTos(a) ==
    LET j == ReadJson(a, "tos.json") IN
    IF j.ok THEN TableOfStylesFromJson(j.v) ELSE Err

\* FobZ::open: the Result it returns
FobZOpen(a) ==
    IF ~a.zip THEN Err
    ELSE IF ~ReadManifest(a).ok THEN Err
    ELSE IF ~ReadToc(a).ok THEN Err
    ELSE IF ~ReadTor(a).ok THEN Err
    ELSE IF ~ReadTos(a).ok THEN Err
    ELSE LET maps == ReadEntries(a.entries,
                        [contents |-> EmptyMap, resources |-> EmptyMap,
                         styles |-> EmptyMap])
         IN  IF ~maps.ok THEN Err
             ELSE Ok([manifest |-> ReadManifest(a).v,
                      toc |-> ReadToc(a).v,
                      tor |-> ReadTor(a).v,
                      tos |-> ReadTos(a).v,
                      contents |-> maps.v.contents,
                      resources |-> maps.v.resources,
                      styles |-> maps.v.styles])

\* the caller goes on with the opened document; on Err there is none and
\* the document at hand stays as it is
open ==
    LET r == FobZOpen(archive) IN
    /\ IF r.ok
       THEN /\ manifest' = r.v.manifest
            /\ toc' = r.v.toc
            /\ tor' = r.v.tor
            /\ tos' = r.v.tos
            /\ contents' = r.v.contents
            /\ resources' = r.v.resources
            /\ styles' = r.v.styles
            /\ origin' = "open"
            /\ last' = Call("open", <<>>, Ok(<<>>))
       ELSE /\ UNCHANGED <<docvars, origin>>
            /\ last' = Call("open", <<>>, Err)
    /\ UNCHANGED <<calls, archive, saved>>

----------------------------------------------------------------------------
(* Inputs *)

ContentPaths == {"contents/a.html", "a.html", NoSectionPath, "x.txt", "n.xhtml"}
ResourcePaths == {"resources/i.png", NoCoverPath, "i.gif"}
StylePaths == {"styles/s.css", "s.html"}
CodecContentPaths == {"contents/a.html", "a.html", "x.txt"}
CodecResourcePaths == {"resources/i.png", NoCoverPath}
CodecStylePaths == {"styles/s.css", "s.css"}
Titles == {"t1", "t2"}
Names == {"n1"}
ContentTexts == {"c1", "c2"}
ResourceBytes == <<Raw("r1")>>
StyleTexts == {"s1"}
Tags == {"a", "b", "c"}
TagLists == {<<>>} \cup {<<x>> : x \in Tags}
              \cup {<<x, y>> : x \in Tags, y \in Tags}

\* archives written by other programs
M0 == Entry("manifest.json",
            JsonText(ManifestToJson(ManifestNew("T", "A", "D", <<"a">>))))
Toc0 == Entry("toc.json", JsonText(TableOfContentsToJson(
            [sections |-> <<[path |-> "contents/gone.html", title |-> "t1"]>>])))
Tor0 == Entry("tor.json", JsonText(TableOfResourcesToJson(TableOfResourcesNew)))
Tos0 == Entry("tos.json", JsonText(TableOfStylesToJson(TableOfStylesNew)))

ForeignArchives ==
    << \* every rule of the classification, one table record without payload
       [zip |-> TRUE, entries |->
          <<M0, Toc0, Tor0, Tos0,
            Entry("other/notes.xhtml", Text("c1")),
            Entry("contents/", Text("")),
            Entry("contents/readme.txt", Text("c1")),
            Entry("a.html", Text("c1")),
            Entry("resources/i.png", Raw("r1")),
            Entry("i.png", Raw("r1")),
            Entry("styles/s.css", Text("s1")),
            Entry("resources/s.css", Text("s1"))>>],
       \* toc.json is missing
       [zip |-> TRUE, entries |-> <<M0, Tor0, Tos0>>],
       \* manifest.json is missing
       [zip |-> TRUE, entries |-> <<Toc0, Tor0, Tos0>>],
       \* tor.json is missing
       [zip |-> TRUE, entries |-> <<M0, Toc0, Tos0>>],
       \* tos.json is missing
       [zip |-> TRUE, entries |-> <<M0, Toc0, Tor0>>],
       \* toc.json holds its records under the key "contents"
       [zip |-> TRUE, entries |->
          <<M0,
            Entry("toc.json", JsonText(JObj(<< <<"contents", JArr(<<>>)>> >>))),
            Tor0, Tos0>>],
       \* manifest.json is not JSON
       [zip |-> TRUE, entries |->
          <<Entry("manifest.json", Text("c1")), Toc0, Tor0, Tos0>>],
       \* a resource record without its name
       [zip |-> TRUE, entries |->
          <<M0, Toc0,
            Entry("tor.json", JsonText(JObj(<< <<"resources",
                JArr(<<JObj(<< <<"path", JStr("resources/i.png")>> >>)>>)>> >>))),
            Tos0>>],
       \* tos.json is a JSON string
       [zip |-> TRUE, entries |->
          <<M0, Toc0, Tor0, Entry("tos.json", JsonText(JStr("s1")))>>],
       \* a content entry that is not UTF-8
       [zip |-> TRUE, entries |->
          <<M0, Toc0, Tor0, Tos0, Entry("contents/a.html", Raw("r1"))>>],
       \* not a ZIP container
       NoArchive >>

\* another program replaces the archive file
ExternalWrite(i) ==
    /\ archive' = ForeignArchives[i]
    /\ saved' = None
    /\ last' = Call("external", <<>>, None)
    /\ UNCHANGED <<calls, docvars, origin>>

----------------------------------------------------------------------------
(* Specifications *)

Init ==
    /\ \E tags \in {<<>>, <<"a", "b">>} :
         LET d == FobZNew("T", "A", "D", tags) IN
         /\ manifest = d.manifest
         /\ toc = d.toc
         /\ tor = d.tor
         /\ tos = d.tos
         /\ contents = d.contents
         /\ resources = d.resources
         /\ styles = d.styles
    /\ archive = NoArchive
    /\ saved = None
    /\ origin = "new"
    /\ last = Call("new", <<>>, None)
    /\ calls = <<>>

AddContent(P, max) ==
    /\ RecCount < max
    /\ \E p \in P, t \in Titles, c \in ContentTexts : add_content(p, t, c)
AddResource(P, max) ==
    /\ RecCount < max
    /\ \E p \in P, n \in Names, i \in 1..Len(ResourceBytes) :
          add_resource(p, n, ResourceBytes[i])
AddStyle(P, max) ==
    /\ RecCount < max
    /\ \E p \in P, s \in StyleTexts : add_style(p, s)
RemoveContent(P) == \E p \in P : remove_content(p)
RemoveResource(P) == \E p \in P : remove_resource(p)
RemoveStyle(P) == \E p \in P : remove_style(p)
GetContentStep(P) == \E p \in P : get_content(p)
GetResourceStep(P) == \E p \in P : get_resource(p)
GetStyleStep(P) == \E p \in P : get_style(p)
SaveSteps ==
    Len(SaveEntries(Doc, <<>>, <<>>, <<>>)) + Cardinality(DOMAIN contents)
      + Cardinality(DOMAIN resources) + Cardinality(DOMAIN styles)
\* every = FALSE: only File::create may fail
SaveTo(every) ==
    \E co \in KeyOrders(contents), ro \in KeyOrders(resources),
       so \in KeyOrders(styles),
       fail_at \in (IF every THEN 0..(SaveSteps + 2)
                            ELSE {0, SaveSteps + 2}),
       readable \in (IF every THEN BOOLEAN ELSE {FALSE}) :
        save_to(co, ro, so, fail_at, readable)
Open == open
ExternalOf(I) == \E i \in I : ExternalWrite(i)
External == ExternalOf(1..Len(ForeignArchives))

\* the in-memory API on a document made by FobZ::new
NextDoc ==
    \/ AddContent(ContentPaths, MaxRecs)
    \/ AddResource(ResourcePaths, MaxRecs)
    \/ AddStyle(StylePaths, MaxRecs)
    \/ RemoveContent(ContentPaths)
    \/ RemoveResource(ResourcePaths)
    \/ RemoveStyle(StylePaths)
    \/ GetContentStep(ContentPaths)
    \/ GetResourceStep(ResourcePaths)
    \/ GetStyleStep(StylePaths)

SpecDoc == Init /\ [][NextDoc]_vars

\* build with add_*, save, reopen, query; archives written by other programs
Next ==
    \/ AddContent(CodecContentPaths, MaxCodecRecs)
    \/ AddResource(CodecResourcePaths, MaxCodecRecs)
    \/ AddStyle(CodecStylePaths, MaxCodecRecs)
    \/ GetContentStep(CodecContentPaths \cup {NoSectionPath, "contents/gone.html"})
    \/ GetResourceStep(CodecResourcePaths)
    \/ GetStyleStep(CodecStylePaths)
    \/ SaveTo(FALSE)
    \/ Open
    \/ External

Spec == Init /\ [][Next]_vars

\* save with a failure at any step, reopen what is left, add, save again
NextSave ==
    \/ AddResource(CodecResourcePaths, MaxCodecRecs)
    \/ AddStyle(CodecStylePaths, MaxCodecRecs)
    \/ SaveTo(TRUE)
    \/ Open
    \/ External

SpecSave == Init /\ [][NextSave]_vars

\* a Manifest and its tag list
AddTags ==
    \E ts \in TagLists :
        /\ Len(manifest.tags) + Len(ts) <= MaxTags
        /\ add_tags(ts)
RemoveTags == \E ts \in TagLists : remove_tags(ts)

NextManifest == AddTags \/ RemoveTags

SpecManifest == Init /\ [][NextManifest]_vars

\* one Index Table object, called directly; the tables do not look at the
\* path, so any two distinct strings serve
TablePaths == {"contents/a.html", "contents/b.html"}
TableNames == {"n1", "n2"}
OnlyTable(t) == \A i \in 1..Len(calls) : calls[i].table = t
TocAdd ==
    /\ Len(calls) < MaxCalls /\ OnlyTable("toc")
    /\ \E p \in TablePaths, t \in Titles : toc_add([path |-> p, title |-> t])
TocRemove ==
    /\ Len(calls) < MaxCalls /\ OnlyTable("toc")
    /\ \E p \in TablePaths : toc_remove(p)
TocGet == \E p \in TablePaths : toc_get(p)
TorAdd ==
    /\ Len(calls) < MaxCalls /\ OnlyTable("tor")
    /\ \E p \in TablePaths, n \in TableNames :
          tor_add([path |-> p, name |-> n])
TorRemove ==
    /\ Len(calls) < MaxCalls /\ OnlyTable("tor")
    /\ \E p \in TablePaths : tor_remove(p)
TorGet == \E p \in TablePaths : tor_get(p)
TosAdd ==
    /\ Len(calls) < MaxCalls /\ OnlyTable("tos")
    /\ \E p \in TablePaths : tos_add([path |-> p])
TosRemove ==
    /\ Len(calls) < MaxCalls /\ OnlyTable("tos")
    /\ \E p \in TablePaths : tos_remove(p)
TosGet == \E p \in TablePaths : tos_get(p)

NextTables ==
    \/ TocAdd
    \/ TocRemove
    \/ TocGet
    \/ TorAdd
    \/ TorRemove
    \/ TorGet
    \/ TosAdd
    \/ TosRemove
    \/ TosGet

SpecTables == Init /\ [][NextTables]_vars

\* every add_* and remove_* tried with the names of the other maps, of a
\* metadata entry and of a directory marker, on a new and on an opened
\* document (archive 1 opens, archive 2 does not)
NamePaths == {"contents/a.html", "other/notes.xhtml", "resources/i.png",
              "styles/s.css", "manifest.json", "contents/"}
NextNames ==
    \/ AddContent(NamePaths, MaxRecs)
    \/ AddResource(NamePaths, MaxRecs)
    \/ AddStyle(NamePaths, MaxRecs)
    \/ RemoveContent(NamePaths)
    \/ RemoveResource(NamePaths)
    \/ RemoveStyle(NamePaths)
    \/ Open
    \/ ExternalOf({1, 2})

SpecNames == Init /\ [][NextNames]_vars

----------------------------------------------------------------------------
(* Properties *)

PathsOf(v) == {v[i].path : i \in 1..Len(v)}
HasRecord(v, path) == \E i \in 1..Len(v) : v[i].path = path
FirstRecord(v, path) ==
    v[CHOOSE i \in 1..Len(v) :
          v[i].path = path /\ \A j \in 1..(i - 1) : v[j].path # path]
EntryNames(a) == {a.entries[i].name : i \in 1..Len(a.entries)}
LastOpened == last.op = "open"
SavedFromNew == saved.some /\ saved.v.origin = "new"

\* C1: Round-trip.  Opening the archive that save_to wrote from a document
\* built by FobZ::new and add_* calls with valid paths succeeds and yields
\* the saved manifest, the saved three tables and the saved three payload
\* maps.  (Stated as claimed; the code does not satisfy it.)
C1_RoundTrip ==
    (LastOpened /\ SavedFromNew) => (last.ret.ok /\ Doc = saved.v.doc)

\* C2: Sentinel persistence.  A document made by FobZ::new, saved without
\* any mutation and reopened, still has default/no_section.html among its
\* content keys and default/no_cover.jpg among its resource keys.
\* (Stated as claimed; the code does not satisfy it.)
C2_SentinelPersistence ==
    (/\ LastOpened
     /\ SavedFromNew
     /\ saved.v.doc = FobZNew("T", "A", "D", saved.v.doc.manifest.tags))
    => (/\ last.ret.ok
        /\ NoSectionPath \in DOMAIN contents
        /\ NoCoverPath \in DOMAIN resources)

\* C3 as claimed: in every state reachable from FobZ::new by add_* and
\* remove_* calls, the paths of each table are exactly the keys of its
\* payload map.
C3_TablePayloadSync ==
    /\ PathsOf(toc.sections) = DOMAIN contents
    /\ PathsOf(tor.resources) = DOMAIN resources
    /\ PathsOf(tos.styles) = DOMAIN styles

\* C3 as amended: every table path has a payload entry, and every payload
\* key has a table record except possibly the two keys the constructor
\* seeds without a record (default/no_section.html, default/no_cover.jpg).
C3_TablePayloadSyncAmended ==
    /\ PathsOf(toc.sections) \subseteq DOMAIN contents
    /\ (DOMAIN contents) \ {NoSectionPath} \subseteq PathsOf(toc.sections)
    /\ PathsOf(tor.resources) \subseteq DOMAIN resources
    /\ (DOMAIN resources) \ {NoCoverPath} \subseteq PathsOf(tor.resources)
    /\ PathsOf(tos.styles) = DOMAIN styles

\* reached: after a remove, tables hold records and the seeded content key
\* still has none
C3_Witness ==
    /\ last.op = "remove_content"
    /\ toc.sections # <<>>
    /\ tor.resources # <<>>
    /\ NoSectionPath \in DOMAIN contents
    /\ NoSectionPath \notin PathsOf(toc.sections)

\* C4: Extension gating.  add_content with a path not ending in .html,
\* add_resource with a path ending in neither .jpg nor .png, and add_style
\* with a path not ending in .css leave the whole document unchanged.
C4_ExtensionGating ==
    [][(\/ /\ last'.op = "add_content"
           /\ ~ends_with(last'.args[1], ".html")
        \/ /\ last'.op = "add_resource"
           /\ ~ends_with(last'.args[1], ".jpg")
           /\ ~ends_with(last'.args[1], ".png")
        \/ /\ last'.op = "add_style"
           /\ ~ends_with(last'.args[1], ".css"))
       => UNCHANGED docvars]_vars

\* reached: add_content("n.xhtml", ..) was called on a document that holds
\* content records
C4_Witness ==
    /\ last.op = "add_content"
    /\ last.args[1] = "n.xhtml"
    /\ toc.sections # <<>>
    /\ "n.xhtml" \notin DOMAIN contents

\* C5: Idempotent removal.  remove_content / remove_resource / remove_style
\* with a path that has neither a table record nor a payload entry leaves
\* the document unchanged, and a remove repeated right after itself leaves
\* the document as the first one left it.
C5_IdempotentRemoval ==
    [][/\ (/\ last'.op = "remove_content"
           /\ last'.args[1] \notin DOMAIN contents
           /\ ~HasRecord(toc.sections, last'.args[1])) => UNCHANGED docvars
       /\ (/\ last'.op = "remove_resource"
           /\ last'.args[1] \notin DOMAIN resources
           /\ ~HasRecord(tor.resources, last'.args[1])) => UNCHANGED docvars
       /\ (/\ last'.op = "remove_style"
           /\ last'.args[1] \notin DOMAIN styles
           /\ ~HasRecord(tos.styles, last'.args[1])) => UNCHANGED docvars
       /\ (/\ last'.op \in {"remove_content", "remove_resource", "remove_style"}
           /\ last.op = last'.op
           /\ last.args = last'.args) => UNCHANGED docvars]_vars

\* reached: remove_content of a path no add_content accepts, on a document
\* that holds content records
C5_Witness ==
    /\ last.op = "remove_content"
    /\ last.args[1] = "x.txt"
    /\ Len(toc.sections) = 2

\* C6: Strict-consistency read.  get_content(path) returns a pair exactly
\* when the content table holds a record for path and the content map holds
\* an entry for path (the pair is the first such record and the entry);
\* with only one of the two it returns None.  Same for get_resource and
\* get_style.
C6_StrictRead ==
    /\ last.op = "get_content" =>
         IF HasRecord(toc.sections, last.args[1])
            /\ last.args[1] \in DOMAIN contents
         THEN last.ret = Some(<<FirstRecord(toc.sections, last.args[1]),
                                contents[last.args[1]]>>)
         ELSE last.ret = None
    /\ last.op = "get_resource" =>
         IF HasRecord(tor.resources, last.args[1])
            /\ last.args[1] \in DOMAIN resources
         THEN last.ret = Some(<<FirstRecord(tor.resources, last.args[1]),
                                resources[last.args[1]]>>)
         ELSE last.ret = None
    /\ last.op = "get_style" =>
         IF HasRecord(tos.styles, last.args[1])
            /\ last.args[1] \in DOMAIN styles
         THEN last.ret = Some(<<FirstRecord(tos.styles, last.args[1]),
                                styles[last.args[1]]>>)
         ELSE last.ret = None

\* reached: get_content of a path with a table record and no payload entry
C6_Witness ==
    /\ last.op = "get_content"
    /\ HasRecord(toc.sections, last.args[1])
    /\ last.args[1] \notin DOMAIN contents
    /\ last.ret = None

\* C7: Sentinels always present.  In every state reachable from FobZ::new
\* by add_* and remove_* calls the content map has the key
\* default/no_section.html and the resource map has the key
\* default/no_cover.jpg.  (Stated as claimed; the code does not satisfy it.)
C7_SentinelsAlwaysPresent ==
    /\ NoSectionPath \in DOMAIN contents
    /\ NoCoverPath \in DOMAIN resources

IsContentName(n) ==
    \/ starts_with(n, "contents/") /\ ends_with(n, ".html")
    \/ ends_with(n, ".xhtml")
IsResourceName(n) ==
    /\ ~IsContentName(n)
    /\ starts_with(n, "resources/")
    /\ (ends_with(n, ".jpg") \/ ends_with(n, ".png"))
IsStyleName(n) ==
    /\ ~IsContentName(n)
    /\ ~IsResourceName(n)
    /\ starts_with(n, "styles/")
    /\ ends_with(n, ".css")

\* C8: Entry classification on open.  After a successful open the content
\* keys are the names of the archive entries that (start with contents/ and
\* end with .html) or end with .xhtml; the resource keys are the names of
\* the other entries that start with resources/ and end with .jpg or .png;
\* the style keys are the names of the remaining entries that start with
\* styles/ and end with .css; each key holds its entry's data and no name is
\* a key of two maps.
C8_EntryClassification ==
    (LastOpened /\ last.ret.ok) =>
      /\ DOMAIN contents = {n \in EntryNames(archive) : IsContentName(n)}
      /\ DOMAIN resources = {n \in EntryNames(archive) : IsResourceName(n)}
      /\ DOMAIN styles = {n \in EntryNames(archive) : IsStyleName(n)}
      /\ \A i \in 1..Len(archive.entries) :
           LET e == archive.entries[i] IN
           /\ e.name \in DOMAIN contents => Text(contents[e.name]) = e.data
           /\ e.name \in DOMAIN resources => resources[e.name] = e.data
           /\ e.name \in DOMAIN styles => Text(styles[e.name]) = e.data
      /\ (DOMAIN contents) \cap (DOMAIN resources) = {}
      /\ (DOMAIN contents) \cap (DOMAIN styles) = {}
      /\ (DOMAIN resources) \cap (DOMAIN styles) = {}

\* reached: an open that admitted other/notes.xhtml as content, one
\* resource and one style, and skipped entries of every other kind
C8_Witness ==
    /\ LastOpened
    /\ last.ret.ok
    /\ "other/notes.xhtml" \in DOMAIN contents
    /\ "resources/i.png" \in DOMAIN resources
    /\ "styles/s.css" \in DOMAIN styles
    /\ {"a.html", "i.png", "resources/s.css", "contents/", "contents/readme.txt"}
          \subseteq EntryNames(archive)

MetaNames == {"manifest.json", "toc.json", "tor.json", "tos.json"}
MetaDecodes(a, n) ==
    /\ by_name(a, n).ok
    /\ by_name(a, n).v.kind = "json"
    /\ by_name(a, n).v.v.t = "obj"
    /\ n = "manifest.json" => ReadManifest(a).ok
    /\ n = "toc.json" => ReadToc(a).ok
    /\ n = "tor.json" => ReadTor(a).ok
    /\ n = "tos.json" => ReadTos(a).ok

\* C9: open fails as a whole when one of manifest.json, toc.json, tor.json,
\* tos.json is missing from the archive or does not decode: it returns an
\* error and the caller gets no document.
C9_OpenFails ==
    [][(/\ last'.op = "open"
        /\ \E n \in MetaNames :
              n \notin EntryNames(archive) \/ ~MetaDecodes(archive, n))
       => (~last'.ret.ok /\ UNCHANGED docvars)]_vars

\* reached: a failed open of a ZIP container that has no tos.json
C9_Witness ==
    /\ LastOpened
    /\ ~last.ret.ok
    /\ archive.zip
    /\ "tos.json" \notin EntryNames(archive)
    /\ {"manifest.json", "toc.json", "tor.json"} \subseteq EntryNames(archive)

\* the indices of T whose tag is not in rs
Kept(T, rs) == {i \in 1..Len(T) : \A k \in 1..Len(rs) : rs[k] # T[i]}
\* R is T without the tags of rs, order kept
IsWithout(R, T, rs) ==
    /\ Len(R) = Cardinality(Kept(T, rs))
    /\ \A i \in Kept(T, rs) :
          R[Cardinality({j \in Kept(T, rs) : j <= i})] = T[i]

\* C10: Tag mutation.  add_tags(ts) appends ts in order to the tag list;
\* remove_tags(rs) removes every occurrence of every tag of rs and keeps the
\* others in order; add_tags([a,b]) then remove_tags([a]) on a tag list T,
\* for two different tags a and b, yields (T without a) followed by b.
C10_TagMutation ==
    [][/\ last'.op = "add_tags" =>
            manifest'.tags = manifest.tags \o last'.args[1]
       /\ last'.op = "remove_tags" =>
            IsWithout(manifest'.tags, manifest.tags, last'.args[1])
       /\ \A a \in Tags : \A b \in Tags \ {a} :
            LET R == ManifestRemoveTags(
                         ManifestAddTags(manifest, <<a, b>>), <<a>>).tags
            IN  /\ Len(R) >= 1
                /\ R[Len(R)] = b
                /\ IsWithout(SubSeq(R, 1, Len(R) - 1), manifest.tags, <<a>>)
       /\ UNCHANGED <<manifest.version, manifest.title, manifest.author,
                      manifest.description, manifest.index, manifest.cover>>
      ]_vars

\* reached: remove_tags of two tags left one tag of a longer list
C10_Witness ==
    /\ last.op = "remove_tags"
    /\ Len(last.args[1]) = 2
    /\ last.args[1][1] # last.args[1][2]
    /\ Len(manifest.tags) = 1

\* the keys of a JSON object, in written order
KeysOf(j) == [i \in 1..Len(j.v) |-> j.v[i][1]]
MetaJson(a, n) == by_name(a, n).v.v

\* C11: Metadata entry shape.  The toc.json entry that save_to writes, and
\* that a successful open has read, is a JSON object whose single key is
\* "contents"; tor.json has the single key "resources" and tos.json the
\* single key "styles".  (Stated as claimed; the code does not satisfy it.)
C11_MetadataShape ==
    /\ (last.op = "save_to" /\ last.ret.ok) =>
          /\ KeysOf(MetaJson(archive, "toc.json")) = <<"contents">>
          /\ KeysOf(MetaJson(archive, "tor.json")) = <<"resources">>
          /\ KeysOf(MetaJson(archive, "tos.json")) = <<"styles">>
    /\ (LastOpened /\ last.ret.ok) =>
          /\ HasMember(MetaJson(archive, "toc.json"), "contents")
          /\ HasMember(MetaJson(archive, "tor.json"), "resources")
          /\ HasMember(MetaJson(archive, "tos.json"), "styles")

\* the fixed head of the archive: metadata entries, then directory markers
FixedNames == <<"manifest.json", "toc.json", "tor.json", "tos.json",
                "contents/", "resources/", "styles/", "default/">>
\* the set a call at position i of save_to's ZipWriter calls must name
NamesAt(i) ==
    LET f == Len(FixedNames)
        c == Cardinality(DOMAIN contents)
        r == Cardinality(DOMAIN resources)
        t == Cardinality(DOMAIN styles)
    IN  IF i <= f THEN {FixedNames[i]}
        ELSE IF i <= f + c THEN DOMAIN contents
        ELSE IF i <= f + c + r THEN DOMAIN resources
        ELSE IF i <= f + c + r + t THEN DOMAIN styles
        ELSE {Finish}
FullLen ==
    Len(FixedNames) + Cardinality(DOMAIN contents)
      + Cardinality(DOMAIN resources) + Cardinality(DOMAIN styles) + 1

\* C12: Archive write order.  save_to starts manifest.json, toc.json,
\* tor.json, tos.json, then contents/, resources/, styles/, default/, then
\* every content key, then every resource key, then every style key, each
\* once; finish() is called only after all of them; a failure at any step
\* returns an error with finish() not called (or, at the last step, failed)
\* and, once the file was created, the archive not the product of a save.
C12_WriteOrder ==
    last.op = "save_to" =>
      /\ Len(last.args) <= FullLen
      /\ \A i \in 1..Len(last.args) : last.args[i] \in NamesAt(i)
      /\ \A i, j \in 1..Len(last.args) :
            i # j => last.args[i] # last.args[j]
      /\ last.ret.ok =>
            /\ Len(last.args) = FullLen
            /\ archive.zip
            /\ Len(archive.entries) = FullLen - 1
            /\ \A i \in 1..Len(archive.entries) :
                  archive.entries[i].name = last.args[i]
      /\ Len(last.args) < FullLen => ~last.ret.ok
      /\ (~last.ret.ok /\ Len(last.args) > 0) => ~saved.some

\* reached: a successful save_to of a document with a content, a resource
\* and a style payload
C12_Witness ==
    /\ last.op = "save_to"
    /\ last.ret.ok
    /\ Cardinality(DOMAIN contents) >= 1
    /\ Cardinality(DOMAIN resources) >= 1
    /\ Cardinality(DOMAIN styles) >= 1

\* the add call at position i is not followed by a remove of its path on the
\* same table
Survives(i) ==
    /\ calls[i].op = "add"
    /\ \A j \in (i + 1)..Len(calls) :
          ~(/\ calls[j].op = "remove"
            /\ calls[j].table = calls[i].table
            /\ calls[j].path = calls[i].path)
\* the surviving added records of table t from position i on, in call order
RECURSIVE Surviving(_, _)
Surviving(t, i) ==
    IF i > Len(calls) THEN <<>>
    ELSE (IF calls[i].table = t /\ Survives(i) THEN <<calls[i].rec>> ELSE <<>>)
         \o Surviving(t, i + 1)
Earliest(t, path) ==
    IF HasRecord(Surviving(t, 1), path)
    THEN Some(FirstRecord(Surviving(t, 1), path))
    ELSE None

\* C13: Index Table ordering.  After any sequence of add and remove calls on
\* an Index Table, its record sequence is the added records in call order
\* without those whose path was passed to a later remove (so add appends
\* without a uniqueness check and remove deletes every match and keeps the
\* order of the rest), and get(p) returns the earliest-added surviving
\* record with path p, or None.
C13_TableOrdering ==
    /\ toc.sections = Surviving("toc", 1)
    /\ tor.resources = Surviving("tor", 1)
    /\ tos.styles = Surviving("tos", 1)
    /\ last.op = "toc.get" => last.ret = Earliest("toc", last.args[1])
    /\ last.op = "tor.get" => last.ret = Earliest("tor", last.args[1])
    /\ last.op = "tos.get" => last.ret = Earliest("tos", last.args[1])

\* reached: get on a table that holds two different records for the asked
\* path, added around a record that a later remove has deleted
C13_Witness ==
    /\ last.op = "toc.get"
    /\ last.ret.some
    /\ \E i, j \in 1..Len(toc.sections) :
          /\ i < j
          /\ toc.sections[i].path = last.args[1]
          /\ toc.sections[j].path = last.args[1]
          /\ toc.sections[i].title # toc.sections[j].title
    /\ \E i, j, k, m \in 1..Len(calls) :
          /\ i < j /\ j < k /\ k < m
          /\ calls[i].op = "add" /\ calls[i].path = last.args[1]
          /\ calls[j].op = "add" /\ calls[j].path # last.args[1]
          /\ calls[k].op = "add" /\ calls[k].path = last.args[1]
          /\ calls[m].op = "remove" /\ calls[m].path = calls[j].path

\* the records of v with the given path, in order
RecordsAt(v, path) == SelectSeq(v, LAMBDA r : r.path = path)

\* C14: Duplicate add.  add_content(p, t2, c2) with a valid path p that has
\* one record (title t1) from an earlier add_content leaves two records for
\* p, titles t1 then t2, and one payload entry for p, holding c2;
\* get_content(p) then returns the first record with c2; one
\* remove_content(p) on the two records removes both and the payload entry.
C14_DuplicateAdd ==
    [][/\ (/\ last'.op = "add_content"
           /\ ends_with(last'.args[1], ".html")
           /\ Len(RecordsAt(toc.sections, last'.args[1])) = 1)
          => /\ RecordsAt(toc'.sections, last'.args[1])
                  = << RecordsAt(toc.sections, last'.args[1])[1],
                       [path |-> last'.args[1], title |-> last'.args[2]] >>
             /\ last'.args[1] \in DOMAIN contents'
             /\ contents'[last'.args[1]] = last'.args[3]
             /\ GetContent(last.args[1])'
                  = Some(<< RecordsAt(toc.sections, last'.args[1])[1],
                            last'.args[3] >>)
       /\ (/\ last'.op = "remove_content"
           /\ Len(RecordsAt(toc.sections, last'.args[1])) = 2)
          => /\ ~HasRecord(toc'.sections, last'.args[1])
             /\ last'.args[1] \notin DOMAIN contents']_vars

\* reached: the second add_content of a path, with another title, has put a
\* second record behind the first and the new payload in the map
C14_Witness ==
    /\ last.op = "add_content"
    /\ Len(RecordsAt(toc.sections, last.args[1])) = 2
    /\ RecordsAt(toc.sections, last.args[1])[1].title = "t1"
    /\ RecordsAt(toc.sections, last.args[1])[2].title = "t2"
    /\ last.args[2] = "t2"
    /\ contents[last.args[1]] = "c2"

\* the names save_to would start for the document at hand, in one of the
\* orders the maps may be iterated in
WouldWrite ==
    LET entries ==
          SaveEntries(Doc, CHOOSE co \in KeyOrders(contents) : TRUE,
                           CHOOSE ro \in KeyOrders(resources) : TRUE,
                           CHOOSE so \in KeyOrders(styles) : TRUE)
    IN  [i \in 1..Len(entries) |-> entries[i].name]

\* C15: No duplicate archive entry names.  In every state reached from
\* FobZ::new or a successful open by add_* / remove_* calls, the key sets of
\* the three payload maps are pairwise disjoint and hold none of
\* manifest.json, toc.json, tor.json, tos.json or a directory marker name, so
\* no two entries save_to starts have the same name.
C15_NoDuplicateNames ==
    /\ DOMAIN contents \cap DOMAIN resources = {}
    /\ DOMAIN contents \cap DOMAIN styles = {}
    /\ DOMAIN resources \cap DOMAIN styles = {}
    /\ \A k \in DOMAIN contents \cup DOMAIN resources \cup DOMAIN styles :
          /\ k \notin MetaNames
          /\ k \notin {"contents/", "resources/", "styles/", "default/"}
    /\ \A i, j \in 1..Len(WouldWrite) :
          i # j => WouldWrite[i] # WouldWrite[j]

\* reached: on an opened document with keys in all three maps, add_style was
\* called with a key of the content map
C15_Witness ==
    /\ origin = "open"
    /\ last.op = "add_style"
    /\ last.args[1] \in DOMAIN contents
    /\ DOMAIN resources # {}
    /\ DOMAIN styles # {}

====
